---- MODULE Spec2Model ----
(***************************************************************************)
(* Smart Content Summarizer backend: the POST /summarize endpoint          *)
(* (backend/src/app.py) and the SmartSummarizer service                    *)
(* (backend/src/utils/llm_utils.py).                                       *)
(*                                                                         *)
(* Text is modelled by TLA+ strings, so len, strip, split and startswith   *)
(* are computed character by character as Python computes them.  The      *)
(* model backend (the LangChain chain) is an opaque collaborator: a call   *)
(* either returns a completion text or raises an exception with a text.    *)
(***************************************************************************)
EXTENDS Integers, Sequences, FiniteSets, TLC

VARIABLES summarizer, pc, body, request, served, invoked, outcome, ret, response

vars == <<summarizer, pc, body, request, served, invoked, outcome, ret, response>>

(***************************************************************************)
(* Bounds of the model.                                                    *)
(***************************************************************************)
\* Concurrently handled requests in SpecConc.
NumRequests == 2
\* Longest run of whitespace put before and after a request's content.
MaxPad == 1

(***************************************************************************)
(* Program constants.                                                      *)
(***************************************************************************)
MIN_LENGTH == 50
MAX_LENGTH == 50000
SUMMARY_LENGTH_GE == 20
SUMMARY_LENGTH_LE == 500
DEFAULT_SUMMARY_LENGTH == 100
SERVICE_MIN_CHARS == 50
DEFAULT_CONTENT_TYPE == "general"
DEFAULT_STYLE == "professional"
DEFAULT_FOCUS_POINTS == "main ideas"

Requests == 1..NumRequests

\* The first request.
Single == CHOOSE i \in Requests : \A j \in Requests : i <= j

(***************************************************************************)
(* Python string operations.                                               *)
(***************************************************************************)
\* The characters str.strip() and str.split() treat as whitespace.
Whitespace == {" ", "\t", "\n", "\r", "\f"}

IsSpace(c) == c \in Whitespace

\* c * n
RECURSIVE Rep(_, _)
Rep(c, n) ==
    IF n = 0 THEN ""
    ELSE LET h == Rep(c, n \div 2)
         IN  IF n % 2 = 0 THEN h \o h ELSE h \o h \o c

\* Index of the first non-whitespace character of s at or after i (Len(s)+1 if none).
RECURSIVE FirstNonSpace(_, _)
FirstNonSpace(s, i) ==
    IF i > Len(s) THEN i
    ELSE IF IsSpace(SubSeq(s, i, i)) THEN FirstNonSpace(s, i + 1) ELSE i

\* Index of the last non-whitespace character of s at or before j (0 if none).
RECURSIVE LastNonSpace(_, _)
LastNonSpace(s, j) ==
    IF j < 1 THEN j
    ELSE IF IsSpace(SubSeq(s, j, j)) THEN LastNonSpace(s, j - 1) ELSE j

\* s.strip()
Strip(s) ==
    LET a == FirstNonSpace(s, 1)
        b == LastNonSpace(s, Len(s))
    IN  IF a > b THEN "" ELSE SubSeq(s, a, b)

\* s.split(): the maximal runs of non-whitespace characters, in order.
RECURSIVE SplitFrom(_, _, _, _)
SplitFrom(s, i, cur, acc) ==
    IF i > Len(s)
    THEN IF cur = "" THEN acc ELSE Append(acc, cur)
    ELSE LET c == SubSeq(s, i, i)
         IN  IF IsSpace(c)
             THEN SplitFrom(s, i + 1, "", IF cur = "" THEN acc ELSE Append(acc, cur))
             ELSE SplitFrom(s, i + 1, cur \o c, acc)

Split(s) == SplitFrom(s, 1, "", <<>>)

\* s.startswith(p)
StartsWith(s, p) == Len(s) >= Len(p) /\ SubSeq(s, 1, Len(p)) = p

\* sep.join(items)
RECURSIVE Join(_, _)
Join(sep, items) ==
    IF Len(items) = 0 THEN ""
    ELSE IF Len(items) = 1 THEN items[1]
    ELSE items[1] \o sep \o Join(sep, Tail(items))

\* x in items, for a Python list
InList(x, items) == \E k \in 1..Len(items) : items[k] = x

(***************************************************************************)
(* SmartSummarizer.__init__: the one instance the module-level             *)
(* "summarizer" holds.  The temperature 0.3 is kept as its text.           *)
(***************************************************************************)
SmartSummarizerInit ==
    [ model       |-> "gpt-3.5-turbo",
      temperature |-> "0.3",
      prompt      |-> << [role |-> "system", variables |-> <<>>],
                         [role |-> "user",
                          variables |-> <<"content_type", "content",
                                          "summary_length", "style", "focus_points">>] >> ]

(***************************************************************************)
(* Request Validator: the pydantic model SummaryRequest.  A body is a      *)
(* record of the JSON fields that are present.  Every field is validated   *)
(* and the errors are collected in field order.                            *)
(***************************************************************************)
\* Faulty variant of ContentTypeAllowed: the list of the field's description, without "general".
ContentTypeDescribed == <<"article", "email", "report", "technical", "research">>

\* validate_content_type's "allowed"
ContentTypeAllowed == <<"general", "article", "email", "report", "technical", "research">>

\* validate_style's "allowed"
StyleAllowed == <<"professional", "casual", "technical", "academic">>

\* Faulty variant of ContentErrors: max_length is not checked.
ContentErrorsNoMax(b) ==
    IF "content" \notin DOMAIN b
    THEN << [loc |-> "content", type |-> "missing"] >>
    ELSE IF Len(b.content) < MIN_LENGTH
    THEN << [loc |-> "content", type |-> "min_length", limit |-> MIN_LENGTH] >>
    ELSE <<>>

\* Faulty variant of ContentErrors: the minimum is exclusive.
ContentErrorsMinExclusive(b) ==
    IF "content" \notin DOMAIN b
    THEN << [loc |-> "content", type |-> "missing"] >>
    ELSE IF Len(b.content) <= MIN_LENGTH
    THEN << [loc |-> "content", type |-> "min_length", limit |-> MIN_LENGTH] >>
    ELSE IF Len(b.content) > MAX_LENGTH
    THEN << [loc |-> "content", type |-> "max_length", limit |-> MAX_LENGTH] >>
    ELSE <<>>

\* content: str = Field(..., min_length=50, max_length=50000): the length of the
\* value as sent; nothing is trimmed.
ContentErrors(b) ==
    IF "content" \notin DOMAIN b
    THEN << [loc |-> "content", type |-> "missing"] >>
    ELSE IF Len(b.content) < MIN_LENGTH
    THEN << [loc |-> "content", type |-> "min_length", limit |-> MIN_LENGTH] >>
    ELSE IF Len(b.content) > MAX_LENGTH
    THEN << [loc |-> "content", type |-> "max_length", limit |-> MAX_LENGTH] >>
    ELSE <<>>

\* @validator('content_type')
ValidateContentType(v) ==
    IF ~InList(v, ContentTypeAllowed)
    THEN << [loc |-> "content_type", type |-> "value_error",
             msg |-> "content_type must be one of: " \o Join(", ", ContentTypeAllowed)] >>
    ELSE <<>>

\* @validator('style')
ValidateStyle(v) ==
    IF ~InList(v, StyleAllowed)
    THEN << [loc |-> "style", type |-> "value_error",
             msg |-> "style must be one of: " \o Join(", ", StyleAllowed)] >>
    ELSE <<>>

\* summary_length: Optional[int] = Field(100, ge=20, le=500)
SummaryLengthErrors(v) ==
    IF v < SUMMARY_LENGTH_GE
    THEN << [loc |-> "summary_length", type |-> "ge", limit |-> SUMMARY_LENGTH_GE] >>
    ELSE IF v > SUMMARY_LENGTH_LE
    THEN << [loc |-> "summary_length", type |-> "le", limit |-> SUMMARY_LENGTH_LE] >>
    ELSE <<>>

\* The validated model: absent fields take their defaults.
ParseRequest(b) ==
    [ content        |-> IF "content" \in DOMAIN b THEN b.content ELSE "",
      content_type   |-> IF "content_type" \in DOMAIN b THEN b.content_type
                         ELSE DEFAULT_CONTENT_TYPE,
      summary_length |-> IF "summary_length" \in DOMAIN b THEN b.summary_length
                         ELSE DEFAULT_SUMMARY_LENGTH,
      style          |-> IF "style" \in DOMAIN b THEN b.style ELSE DEFAULT_STYLE,
      focus_points   |-> IF "focus_points" \in DOMAIN b THEN b.focus_points
                         ELSE DEFAULT_FOCUS_POINTS ]

\* The validation errors of a body (empty: the body is accepted).
Validate(b) ==
    LET r == ParseRequest(b)
    IN  ContentErrors(b) \o ValidateContentType(r.content_type)
          \o SummaryLengthErrors(r.summary_length) \o ValidateStyle(r.style)

(***************************************************************************)
(* SmartSummarizer.summarize                                               *)
(***************************************************************************)
\* Faulty variant of TooShort: the content is measured without strip().
TooShortRaw(content) == content = "" \/ Len(content) < SERVICE_MIN_CHARS

\* if not content or len(content.strip()) < 50
TooShort(content) == content = "" \/ Len(Strip(content)) < SERVICE_MIN_CHARS

ShortContentError ==
    "Error: Content too short to summarize effectively (min 50 characters)"

\* The dict handed to self.chain.invoke
ChainInput(req) ==
    [ content        |-> req.content,
      content_type   |-> req.content_type,
      summary_length |-> req.summary_length,
      style          |-> req.style,
      focus_points   |-> req.focus_points ]

\* Faulty variant of SummarizeOnText: the completion is returned without strip().
SummarizeOnTextNoStrip(t) == t

\* return summary.strip()
SummarizeOnText(t) == Strip(t)

\* Faulty variant of SummarizeOnException: the message does not begin with "Error".
SummarizeOnExceptionNoPrefix(e) == "Failed to generate summary: " \o e

\* except Exception as e: return f"Error generating summary: {str(e)}"
SummarizeOnException(e) == "Error generating summary: " \o e

(***************************************************************************)
(* create_summary, after summarize has returned                            *)
(***************************************************************************)
\* str() of an HTTPException: "<status_code>: <detail>"
HTTPExceptionStr(status, detail) == ToString(status) \o ": " \o detail

ParametersUsed(req) ==
    [ content_type   |-> req.content_type,
      summary_length |-> req.summary_length,
      style          |-> req.style,
      focus_points   |-> req.focus_points ]

\* Faulty variant of CreateSummary: the two counts are swapped.
CreateSummaryCountsSwapped(req, summary) ==
    IF StartsWith(summary, "Error")
    THEN [ status |-> 500,
           detail |-> "Internal server error: " \o HTTPExceptionStr(500, summary) ]
    ELSE [ status          |-> 200,
           summary         |-> summary,
           word_count      |-> Len(summary),
           char_count      |-> Len(Split(summary)),
           parameters_used |-> ParametersUsed(req) ]

\* Faulty variant of CreateSummary: the echoed parameters are read from a module-level
\* "current request" (here the first request's) instead of the handler's argument.
CreateSummaryGlobalRequest(req, summary) ==
    IF StartsWith(summary, "Error")
    THEN [ status |-> 500,
           detail |-> "Internal server error: " \o HTTPExceptionStr(500, summary) ]
    ELSE [ status          |-> 200,
           summary         |-> summary,
           word_count      |-> Len(Split(summary)),
           char_count      |-> Len(summary),
           parameters_used |-> ParametersUsed(request[Single]) ]

\* if summary.startswith("Error"): raise HTTPException(500, detail=summary);
\* that exception is caught by the handler's own "except Exception" and raised
\* again with the prefixed text.  Otherwise the SummaryResponse.
CreateSummary(req, summary) ==
    IF StartsWith(summary, "Error")
    THEN [ status |-> 500,
           detail |-> "Internal server error: " \o HTTPExceptionStr(500, summary) ]
    ELSE [ status          |-> 200,
           summary         |-> summary,
           word_count      |-> Len(Split(summary)),
           char_count      |-> Len(summary),
           parameters_used |-> ParametersUsed(req) ]

(***************************************************************************)
(* State                                                                   *)
(***************************************************************************)
NoBody == [none |-> TRUE]
NoRequest == ParseRequest(NoBody)
NoOutcome == [kind |-> "none", text |-> ""]
NoResponse == [status |-> 0]

TypeOK ==
    /\ pc \in [Requests -> {"idle", "handler", "invoking", "returned", "done"}]
    /\ served \in [Requests -> Nat]
    /\ \A i \in Requests : outcome[i].kind \in {"none", "text", "raise"}
    /\ \A i \in Requests : response[i].status \in {0, 200, 422, 500}

Init ==
    /\ summarizer = SmartSummarizerInit
    /\ pc = [i \in Requests |-> "idle"]
    /\ body = [i \in Requests |-> NoBody]
    /\ request = [i \in Requests |-> NoRequest]
    /\ served = [i \in Requests |-> 0]
    /\ invoked = [i \in Requests |-> <<>>]
    /\ outcome = [i \in Requests |-> NoOutcome]
    /\ ret = [i \in Requests |-> ""]
    /\ response = [i \in Requests |-> NoResponse]

(***************************************************************************)
(* Actions                                                                 *)
(***************************************************************************)
\* POST /summarize arrives with body b: the framework validates it against
\* SummaryRequest and answers 422 itself, or calls create_summary.
Receive(i, b) ==
    /\ pc[i] = "idle"
    /\ body' = [body EXCEPT ![i] = b]
    /\ IF Validate(b) # <<>>
       THEN /\ response' = [response EXCEPT ![i] = [status |-> 422, detail |-> Validate(b)]]
            /\ pc' = [pc EXCEPT ![i] = "done"]
            /\ UNCHANGED request
       ELSE /\ request' = [request EXCEPT ![i] = ParseRequest(b)]
            /\ pc' = [pc EXCEPT ![i] = "handler"]
            /\ UNCHANGED response
    /\ UNCHANGED <<summarizer, served, invoked, outcome, ret>>

\* create_summary calls summarizer.summarize, which returns the short-content
\* error at once or hands the request to the chain (the backend call).
Summarize(i) ==
    /\ pc[i] = "handler"
    /\ served' = [served EXCEPT ![i] = @ + 1]
    /\ IF TooShort(request[i].content)
       THEN /\ ret' = [ret EXCEPT ![i] = ShortContentError]
            /\ pc' = [pc EXCEPT ![i] = "returned"]
            /\ UNCHANGED invoked
       ELSE /\ invoked' = [invoked EXCEPT ![i] = Append(@, ChainInput(request[i]))]
            /\ pc' = [pc EXCEPT ![i] = "invoking"]
            /\ UNCHANGED ret
    /\ UNCHANGED <<summarizer, body, request, outcome, response>>

\* The backend call returns the completion text t.
BackendReturn(i, t) ==
    /\ pc[i] = "invoking"
    /\ outcome' = [outcome EXCEPT ![i] = [kind |-> "text", text |-> t]]
    /\ ret' = [ret EXCEPT ![i] = SummarizeOnText(t)]
    /\ pc' = [pc EXCEPT ![i] = "returned"]
    /\ UNCHANGED <<summarizer, body, request, served, invoked, response>>

\* The backend call raises an exception whose str() is e.
BackendRaise(i, e) ==
    /\ pc[i] = "invoking"
    /\ outcome' = [outcome EXCEPT ![i] = [kind |-> "raise", text |-> e]]
    /\ ret' = [ret EXCEPT ![i] = SummarizeOnException(e)]
    /\ pc' = [pc EXCEPT ![i] = "returned"]
    /\ UNCHANGED <<summarizer, body, request, served, invoked, response>>

\* The rest of create_summary: the response is made from summarize's return value.
Respond(i) ==
    /\ pc[i] = "returned"
    /\ response' = [response EXCEPT ![i] = CreateSummary(request[i], ret[i])]
    /\ pc' = [pc EXCEPT ![i] = "done"]
    /\ UNCHANGED <<summarizer, body, request, served, invoked, outcome, ret>>

(***************************************************************************)
(* Inputs                                                                  *)
(***************************************************************************)
\* "A" * 100, the content of test_summarize_endpoint
TestContent == Rep("A", 100)

CoreLengths == {MIN_LENGTH - 1, MIN_LENGTH, Len(TestContent), MAX_LENGTH, MAX_LENGTH + 1}

\* Contents around both length limits, with and without surrounding whitespace.
Contents ==
    { Rep(" ", l) \o Rep("A", n) \o Rep(" ", t) :
        n \in CoreLengths, l \in 0..MaxPad, t \in 0..MaxPad }
    \cup {"Too short", "", Rep(" ", MIN_LENGTH)}

ScenarioABody ==
    [ content |-> TestContent, content_type |-> "general", summary_length |-> 50,
      style |-> "professional", focus_points |-> "main ideas" ]

ScenarioAText == "This is a short test summary."

Bodies ==
    { [content |-> c] : c \in Contents }
    \cup { [content |-> TestContent, content_type |-> v] :
             v \in {"general", "article", "email", "report", "technical", "research",
                    "poetry", "General", ""} }
    \cup { [content |-> TestContent, style |-> v] :
             v \in {"professional", "casual", "technical", "academic", "poetic", "email"} }
    \cup { [content |-> TestContent, summary_length |-> v] :
             v \in {SUMMARY_LENGTH_GE - 1, SUMMARY_LENGTH_GE, 50,
                    SUMMARY_LENGTH_LE, SUMMARY_LENGTH_LE + 1} }
    \cup { [content |-> TestContent, focus_points |-> v] : v \in {"key risks", ""} }
    \cup { ScenarioABody,
           [style |-> "casual"],
           [content |-> "Too short", content_type |-> "poetry",
            summary_length |-> 501, style |-> "poetic"] }

Completions ==
    { ScenarioAText, "  Two words.\n", "Error rates fell sharply.",
      "\n Errors were found", " \n", "error budget kept",
      "One\ttab  and\n\nlines " }

BackendErrors == {"Connection error.", "Incorrect API key provided"}

\* The smaller inputs of the concurrent specification.
ConcBodies ==
    { [content |-> Rep("A", 60)],
      [content |-> Rep("B", 60), content_type |-> "email", summary_length |-> 50,
       style |-> "casual", focus_points |-> "dates"],
      [content |-> "Too short"],
      [content |-> Rep(" ", 60)] }

ConcCompletions == {" Summary one.", "Error two"}

ConcErrors == {"Connection error."}

(***************************************************************************)
(* Specifications                                                          *)
(***************************************************************************)
\* One request, over all the inputs.
Next ==
    \/ \E b \in Bodies : Receive(Single, b)
    \/ Summarize(Single)
    \/ \E t \in Completions : BackendReturn(Single, t)
    \/ \E e \in BackendErrors : BackendRaise(Single, e)
    \/ Respond(Single)

Spec == Init /\ [][Next]_vars

\* NumRequests requests handled concurrently, their steps interleaved in any order.
NextConc ==
    \E i \in Requests :
        \/ \E b \in ConcBodies : Receive(i, b)
        \/ Summarize(i)
        \/ \E t \in ConcCompletions : BackendReturn(i, t)
        \/ \E e \in ConcErrors : BackendRaise(i, e)
        \/ Respond(i)

SpecConc == Init /\ [][NextConc]_vars

(***************************************************************************)
(* Properties                                                              *)
(***************************************************************************)
Done(i) == pc[i] = "done"

Received(i) == pc[i] # "idle"

HasContent(i) == "content" \in DOMAIN body[i]

\* sub occurs in s
Contains(s, sub) ==
    \E k \in 0..(Len(s) - Len(sub)) : SubSeq(s, k + 1, k + Len(sub)) = sub

\* Some validation error of request i names field f and its text contains sub.
ErrorMentions(i, f, sub) ==
    \E k \in 1..Len(response[i].detail) :
        /\ response[i].detail[k].loc = f
        /\ "msg" \in DOMAIN response[i].detail[k]
        /\ Contains(response[i].detail[k].msg, sub)

\* s is t without its leading and trailing whitespace.
IsTrimOf(s, t) ==
    /\ \E a \in 0..Len(t) :
          /\ a + Len(s) <= Len(t)
          /\ SubSeq(t, a + 1, a + Len(s)) = s
          /\ \A k \in 1..a : IsSpace(SubSeq(t, k, k))
          /\ \A k \in (a + Len(s) + 1)..Len(t) : IsSpace(SubSeq(t, k, k))
    /\ s # "" => ~IsSpace(SubSeq(s, 1, 1)) /\ ~IsSpace(SubSeq(s, Len(s), Len(s)))

\* The positions of s where a whitespace-delimited token starts.
TokenStarts(s) ==
    { k \in 1..Len(s) : /\ ~IsSpace(SubSeq(s, k, k))
                        /\ (k = 1 \/ IsSpace(SubSeq(s, k - 1, k - 1))) }

\* C1 as stated: content whose TRIMMED length is below 50 or above 50000 is
\* rejected with 422 and summarize is never invoked for that request.
C1_TrimmedLengthRejected ==
    \A i \in Requests :
        (Received(i) /\ HasContent(i)
           /\ (Len(Strip(body[i].content)) < 50 \/ Len(Strip(body[i].content)) > 50000))
        => (response[i].status = 422 /\ served[i] = 0)

\* C1 as amended: content whose length as sent (untrimmed) is below 50 or above
\* 50000 is rejected with 422 and summarize is never invoked for that request.
C1_RawLengthRejected ==
    \A i \in Requests :
        (Received(i) /\ HasContent(i)
           /\ (Len(body[i].content) < 50 \/ Len(body[i].content) > 50000))
        => (response[i].status = 422 /\ served[i] = 0 /\ pc[i] = "done")

C1_Witness ==
    \E i \in Requests :
        /\ Done(i) /\ HasContent(i) /\ Len(body[i].content) > 50000
        /\ DOMAIN body[i] = {"content"}
        /\ response[i].status = 422 /\ served[i] = 0

\* C2: whenever the backend call returned a completion text, whatever the text,
\* the request ends as a 200 success.
C2_BackendSuccessIs200 ==
    \A i \in Requests :
        (Done(i) /\ outcome[i].kind = "text") => response[i].status = 200

\* C3: when the backend call raised, summarize returns (it does not raise) and the
\* request ends as a 500 whose message includes the backend's error text, never as
\* a 200.
C3_BackendFailureIs500 ==
    \A i \in Requests :
        outcome[i].kind = "raise" =>
            /\ pc[i] \in {"returned", "done"}
            /\ Contains(ret[i], outcome[i].text)
            /\ Done(i) => /\ response[i].status = 500
                          /\ Contains(response[i].detail, outcome[i].text)

C3_Witness ==
    \E i \in Requests :
        /\ Done(i) /\ outcome[i].kind = "raise" /\ outcome[i].text # ""
        /\ response[i].status = 500

\* C4 as stated: a request makes exactly one backend call if it passed validation
\* and none if the Validator rejected it.
C4_OneCallPerValidRequest ==
    \A i \in Requests :
        Done(i) => Len(invoked[i]) = (IF response[i].status = 422 THEN 0 ELSE 1)

\* C4 as amended: a request makes exactly one backend call if it passed validation
\* and its content has at least 50 characters after trimming, whether the call
\* succeeds or fails; it makes none if the Validator rejected it or its trimmed
\* content is shorter than 50 characters.  No request ever makes a second call.
C4_OneCallUnlessShort ==
    \A i \in Requests :
        /\ Len(invoked[i]) <= 1
        /\ Done(i) =>
             Len(invoked[i]) =
                (IF response[i].status = 422 \/ Len(Strip(body[i].content)) < 50
                 THEN 0 ELSE 1)

C4_Witness ==
    \E i \in Requests :
        /\ Done(i) /\ outcome[i].kind = "raise" /\ Len(invoked[i]) = 1
        /\ response[i].status = 500

\* C5 as stated: a body holding only content, of TRIMMED length 50..50000, is accepted.
C5_TrimmedLengthAccepted ==
    \A i \in Requests :
        (Received(i) /\ DOMAIN body[i] = {"content"}
           /\ Len(Strip(body[i].content)) >= 50 /\ Len(Strip(body[i].content)) <= 50000)
        => response[i].status # 422

\* C5 as amended: a body holding only content, of length as sent (untrimmed)
\* 50..50000, is accepted.
C5_RawLengthAccepted ==
    \A i \in Requests :
        (Received(i) /\ DOMAIN body[i] = {"content"}
           /\ Len(body[i].content) >= 50 /\ Len(body[i].content) <= 50000)
        => (response[i].status # 422 /\ request[i].content = body[i].content
            /\ request[i].content_type = "general" /\ request[i].summary_length = 100
            /\ request[i].style = "professional" /\ request[i].focus_points = "main ideas")

C5_Witness ==
    \E i \in Requests :
        /\ pc[i] = "handler" /\ DOMAIN body[i] = {"content"}
        /\ Len(body[i].content) = 50000

\* C6: a finished request has status 200 exactly when its backend call succeeded,
\* 422 exactly when it was structurally invalid, and 500 exactly when the backend
\* or the service failed.
C6_OutcomeFollowsClassification ==
    \A i \in Requests :
        Done(i) =>
            /\ response[i].status \in {200, 422, 500}
            /\ response[i].status = 200 <=> outcome[i].kind = "text"
            /\ response[i].status = 422 <=> Validate(body[i]) # <<>>
            /\ response[i].status = 500 <=>
                  (Validate(body[i]) = <<>> /\ outcome[i].kind # "text")

\* C7: a content_type outside {general, article, email, report, technical, research}
\* or a style outside {professional, casual, technical, academic} is rejected, the
\* error for that field contains the field's full allowed list, and summarize is
\* not invoked.
C7_EnumRejectedWithList ==
    \A i \in Requests :
        /\ (Received(i) /\ "content_type" \in DOMAIN body[i]
              /\ body[i].content_type \notin
                   {"general", "article", "email", "report", "technical", "research"})
           => /\ response[i].status = 422 /\ served[i] = 0
              /\ ErrorMentions(i, "content_type",
                               "general, article, email, report, technical, research")
        /\ (Received(i) /\ "style" \in DOMAIN body[i]
              /\ body[i].style \notin {"professional", "casual", "technical", "academic"})
           => /\ response[i].status = 422 /\ served[i] = 0
              /\ ErrorMentions(i, "style", "professional, casual, technical, academic")

C7_Witness ==
    \E i \in Requests :
        /\ Done(i) /\ "content_type" \in DOMAIN body[i] /\ body[i].content_type = "poetry"
        /\ "style" \in DOMAIN body[i] /\ body[i].style = "poetic"
        /\ response[i].status = 422

C9_ScenarioA30 ==
    \A i \in Requests :
        (Done(i) /\ body[i] = ScenarioABody /\ outcome[i].kind = "text"
           /\ outcome[i].text = "This is a short test summary.")
        => /\ response[i].status = 200
           /\ response[i].summary = "This is a short test summary."
           /\ response[i].word_count = 6
           /\ response[i].char_count = 30

\* C9 as amended: scenario A ends with summary "This is a short test summary.",
\* word_count 6 and char_count 29.
C9_ScenarioA29 ==
    \A i \in Requests :
        (Done(i) /\ body[i] = ScenarioABody /\ outcome[i].kind = "text"
           /\ outcome[i].text = "This is a short test summary.")
        => /\ response[i].status = 200
           /\ response[i].summary = "This is a short test summary."
           /\ response[i].word_count = 6
           /\ response[i].char_count = 29

C9_Witness ==
    \E i \in Requests :
        /\ Done(i) /\ body[i] = ScenarioABody
        /\ outcome[i] = [kind |-> "text", text |-> "This is a short test summary."]
        /\ response[i].status = 200

\* The value of field f a body stands for.
OwnField(i, f, default) == IF f \in DOMAIN body[i] THEN body[i][f] ELSE default

\* C10: under every interleaving, the shared SmartSummarizer stays as constructed,
\* every backend call and every response of a request is made from that request's
\* own fields and its own backend outcome, and two requests with the same body and
\* the same outcome get the same response.
C10_SharedReadOnlyAndIndependent ==
    /\ summarizer = SmartSummarizerInit
    /\ \A i \in Requests :
         /\ \A k \in 1..Len(invoked[i]) :
               /\ invoked[i][k].content = body[i].content
               /\ invoked[i][k].content_type = OwnField(i, "content_type", "general")
               /\ invoked[i][k].summary_length = OwnField(i, "summary_length", 100)
               /\ invoked[i][k].style = OwnField(i, "style", "professional")
               /\ invoked[i][k].focus_points = OwnField(i, "focus_points", "main ideas")
         /\ (Done(i) /\ response[i].status = 200) =>
               /\ outcome[i].kind = "text"
               /\ IsTrimOf(response[i].summary, outcome[i].text)
               /\ response[i].parameters_used.content_type
                    = OwnField(i, "content_type", "general")
               /\ response[i].parameters_used.summary_length
                    = OwnField(i, "summary_length", 100)
               /\ response[i].parameters_used.style = OwnField(i, "style", "professional")
               /\ response[i].parameters_used.focus_points
                    = OwnField(i, "focus_points", "main ideas")
         /\ (Done(i) /\ outcome[i].kind = "raise") =>
               Contains(response[i].detail, outcome[i].text)
    /\ \A i, j \in Requests :
         (Done(i) /\ Done(j) /\ body[i] = body[j] /\ outcome[i] = outcome[j])
         => response[i] = response[j]

C10_Witness ==
    \E i, j \in Requests :
        /\ i # j /\ body[i] # body[j]
        /\ Done(i) /\ response[i].status = 200
        /\ "content_type" \in DOMAIN body[i]
        /\ pc[j] = "returned" /\ outcome[j].kind = "raise"

====
